---- MODULE Spec2Model ----
(***************************************************************************)
(* Model of the two crawler variants of website-url-crawler:               *)
(*   static.py  : crawl      (general variant, no child cap)               *)
(*   dynamic.py : crawl_spa  (SPA variant, at most 10 children per page)   *)
(*                                                                         *)
(* A URL string is a sequence of tokens.  The punctuation characters       *)
(* ":", "/", "#", "?" are tokens of their own; every other token is a run  *)
(* of characters without punctuation, chosen so that no token is a prefix  *)
(* of another.  Prefix, substring, strip and split on the token sequence   *)
(* then agree with the same operations on the string.                      *)
(***************************************************************************)
EXTENDS Integers, Sequences, FiniteSets, TLC

\* ------------------------------------------------------------------ bounds
MaxMaxDepth == 2      \* max_depth is drawn from 0..MaxMaxDepth
MaxLinks == 2         \* the root page carries at most MaxLinks anchors
MaxCount == 2         \* a sample of the anchor count is drawn from 0..MaxCount
MaxFailures == 1      \* at most MaxFailures browser operations raise per run

\* ------------------------------------------------------- string operations
\* str.startswith(p)
StartsWith(s, p) ==
    /\ Len(p) <= Len(s)
    /\ SubSeq(s, 1, Len(p)) = p

\* p in s   (substring test)
Contains(s, p) ==
    \E i \in 0..(Len(s) - Len(p)) : SubSeq(s, i + 1, i + Len(p)) = p

\* '#' in s  /  s.includes(c)
Includes(s, c) == \E i \in 1..Len(s) : s[i] = c

\* index of the first token of s that lies in cs, Len(s)+1 when there is none
RECURSIVE FirstIn(_, _, _)
FirstIn(s, cs, i) ==
    IF i > Len(s) THEN Len(s) + 1
    ELSE IF s[i] \in cs THEN i
    ELSE FirstIn(s, cs, i + 1)

\* s.split('#')[0]
BeforeHash(s) == SubSeq(s, 1, FirstIn(s, {"#"}, 1) - 1)

\* s.rstrip('/')
RECURSIVE RStripSlash(_)
RStripSlash(s) ==
    IF Len(s) > 0 /\ s[Len(s)] = "/"
    THEN RStripSlash(SubSeq(s, 1, Len(s) - 1))
    ELSE s

\* s.replace('//', '/') : non-overlapping, left to right
RECURSIVE ReplaceDoubleSlash(_)
ReplaceDoubleSlash(s) ==
    IF Len(s) < 2 THEN s
    ELSE IF s[1] = "/" /\ s[2] = "/"
         THEN <<"/">> \o ReplaceDoubleSlash(SubSeq(s, 3, Len(s)))
         ELSE <<s[1]>> \o ReplaceDoubleSlash(SubSeq(s, 2, Len(s)))

\* s.startswith('http')
StartsWithHttp(s) == Len(s) > 0 /\ s[1] \in {"http", "https"}

\* s.startswith('/')
StartsWithSlash(s) == Len(s) > 0 /\ s[1] = "/"

\* ---------------------------------------------------------------- urlparse
SchemeSep == <<":", "/", "/">>

HasAuthority(u) == Len(u) >= 4 /\ SubSeq(u, 2, 4) = SchemeSep

\* urlparse(u).scheme
Scheme(u) == IF Len(u) >= 2 /\ u[2] = ":" THEN <<u[1]>> ELSE <<>>

\* urlparse(u).netloc : what follows "://" up to the first "/", "?" or "#"
Netloc(u) ==
    IF HasAuthority(u)
    THEN SubSeq(u, 5, FirstIn(u, {"/", "?", "#"}, 5) - 1)
    ELSE <<>>

\* f"{parsed_url.scheme}://{parsed_url.netloc}"
BaseUrlOf(u) == Scheme(u) \o SchemeSep \o Netloc(u)

\* urlparse(u).path with fragment and query removed
PathOf(u) ==
    IF HasAuthority(u)
    THEN SubSeq(u, FirstIn(u, {"/", "?", "#"}, 5), FirstIn(u, {"?", "#"}, 1) - 1)
    ELSE <<>>

\* urljoin(base_url, link) for a link that starts with '/'
UrlJoin(base, link) ==
    IF Len(link) >= 2 /\ link[2] = "/"
    THEN Scheme(base) \o <<":">> \o link
    ELSE BaseUrlOf(base) \o link

\* ------------------------------------------------------------ the web site
\* URL strings used by the runs
Origin == <<"https", ":", "/", "/", "example.com">>
UrlRoot == Origin \o <<"/">>
UrlAbout == Origin \o <<"/", "about">>
UrlX == Origin \o <<"/", "x">>
UrlEvilX == Origin \o <<".evil.org", "/", "x">>
UrlOtherX == <<"https", ":", "/", "/", "other.com", "/", "x">>
UrlOtherRef == <<"https", ":", "/", "/", "other.com", "/", "?"
                 , "https", ":", "/", "/", "example.com">>

\* attribute values a page can carry in a[href]
HRoot == <<"/">>
HAbout == <<"/", "about">>
HAboutSlash == <<"/", "about", "/">>
HAboutTeam == <<"/", "about", "#", "team">>
HX == <<"/", "x">>
HTeam == <<"/", "team">>
HMail == <<"mailto", ":", "x">>

AnchorPool == {HRoot, HAbout, HAboutSlash, HX, UrlEvilX}

\* attribute values a page can carry in data-href / data-url
DataPool == {UrlEvilX}

StartUrls == {UrlRoot, Origin}

NoPage == [a |-> {}, d |-> {}]

\* the root page of the example run: /about, /about#team, https://other.com/x
ExamplePage == [a |-> {HAbout, HAboutTeam, UrlOtherX}, d |-> {}]

\* a root page with a link to another host whose query holds the base URL
RefPage == [a |-> {HAbout, UrlOtherRef}, d |-> {}]

\* a root page with more links than dynamic.py takes from one page
WideWords == {"pa", "pb", "pc", "pd", "pe", "pf", "pg", "ph", "pi", "pj", "pk"}
WidePage == [a |-> {<<"/", w>> : w \in WideWords}, d |-> {}]

\* the page the server returns for a URL: fragment and trailing slashes do
\* not select a different document
PageKey(u) == BaseUrlOf(u) \o RStripSlash(PathOf(u))

\* the root page carries any small set of anchors, or the anchors of the
\* example, or one data attribute, or a link that only mentions the base
\* URL, or a long list of links
RootPages ==
    {[a |-> as, d |-> {}] : as \in {x \in SUBSET AnchorPool : Cardinality(x) <= MaxLinks}}
    \cup {ExamplePage, [a |-> {HAbout}, d |-> DataPool], RefPage, WidePage}

\* the documents of one site: the inner pages link back, so the graph has
\* cycles
Sites ==
    {[k \in {Origin, UrlAbout, UrlX, UrlEvilX} |->
        IF k = Origin THEN r
        ELSE IF k = UrlAbout THEN [a |-> {HRoot, HX}, d |-> {}]
        ELSE IF k = UrlX THEN [a |-> {HAbout, HTeam, HMail}, d |-> {}]
        ELSE [a |-> {HTeam}, d |-> {}]] :
     r \in RootPages}

DocumentAt(site, u) ==
    IF PageKey(u) \in DOMAIN site THEN site[PageKey(u)] ELSE NoPage

\* ------------------------------------------------------- browser behaviour
\* window.location.href after navigating to u: an empty path becomes "/"
Location(u) ==
    IF HasAuthority(u) /\ PathOf(u) = <<>>
    THEN BaseUrlOf(u) \o <<"/">> \o SubSeq(u, Len(BaseUrlOf(u)) + 1, Len(u))
    ELSE u

\* path up to and including its last "/"
RECURSIVE DirOf(_)
DirOf(p) ==
    IF Len(p) = 0 \/ p[Len(p)] = "/" THEN p
    ELSE DirOf(SubSeq(p, 1, Len(p) - 1))

\* el.href : the attribute value resolved against the document location
ResolveHref(loc, raw) ==
    IF raw = <<>> THEN loc
    ELSE IF Scheme(raw) # <<>> THEN Location(raw)
    ELSE IF Len(raw) >= 2 /\ raw[1] = "/" /\ raw[2] = "/" THEN Scheme(loc) \o <<":">> \o raw
    ELSE IF raw[1] = "/" THEN BaseUrlOf(loc) \o raw
    ELSE IF raw[1] = "#" THEN BeforeHash(loc) \o raw
    ELSE BaseUrlOf(loc) \o DirOf(PathOf(loc)) \o raw

\* --------------------------------------------------------- link extraction
WordTok == {"about", "team", "x"} \cup WideWords

\* static.py, the script of extract_links_comprehensive: anchors through
\* el.href, data attributes raw, merged in a Set
StaticHarvest(doc, loc) ==
    LET hrefs == {ResolveHref(loc, r) : r \in doc.a}
        kept == {h \in hrefs :
                    /\ h # <<>>
                    /\ h # <<"#">>
                    /\ ~Contains(h, <<"mailto", ":">>)
                    /\ ~Contains(h, <<"tel", ":">>)
                    /\ ~(Includes(h, "#") /\ BeforeHash(h) = <<>>)}
        dataLinks == {r \in doc.d : r # <<>> /\ StartsWithHttp(r)}
    IN  kept \cup dataLinks

\* the value that stands for `continue` in the normalisation loop
Skipped == <<"<skipped>">>

\* variant of NormalizeLink that keeps the fragment
NormalizeLinkKeepFragment(base_url, link) ==
    LET abs == IF StartsWithSlash(link) THEN UrlJoin(base_url, link) ELSE link
    IN  IF ~StartsWithSlash(link) /\ ~StartsWithHttp(link) THEN Skipped
        ELSE RStripSlash(abs)

\* static.py, the normalisation loop
NormalizeLink(base_url, link) ==
    LET abs == IF StartsWithSlash(link) THEN UrlJoin(base_url, link) ELSE link
        nofrag == IF Includes(abs, "#") THEN BeforeHash(abs) ELSE abs
    IN  IF ~StartsWithSlash(link) /\ ~StartsWithHttp(link) THEN Skipped
        ELSE RStripSlash(nofrag)

extract_links_comprehensive(doc, loc, base_url) ==
    {NormalizeLink(base_url, l) : l \in StaticHarvest(doc, loc)} \ {Skipped}

\* dynamic.py, the script of extract_spa_links: raw attribute values, made
\* absolute by string concatenation, then filtered
SpaAbsolute(base_url, link) ==
    IF StartsWithHttp(link) THEN link
    ELSE IF StartsWithSlash(link) THEN base_url \o link
    ELSE base_url \o <<"/">> \o link

SpaKeep(base_url, link) ==
    /\ StartsWith(link, base_url)
    /\ ~Includes(link, "#")
    /\ ~Includes(link, "?")
    /\ link # base_url
    /\ link # base_url \o <<"/">>

SpaHarvest(doc, base_url) ==
    LET hrefs == {h \in doc.a :
                    /\ h # <<>>
                    /\ h # <<"#">>
                    /\ ~StartsWith(h, <<"mailto", ":">>)
                    /\ ~StartsWith(h, <<"tel", ":">>)}
        dataLinks == {r \in doc.d : r # <<>>}
    IN  {l \in {SpaAbsolute(base_url, r) : r \in hrefs \cup dataLinks} :
            SpaKeep(base_url, l)}

\* dynamic.py, the route patterns applied to page.content(): a quoted
\* attribute value "/" followed by word characters and slashes; the capture
\* is what follows the first "/"
RouteMatches(doc) ==
    {SubSeq(v, 2, Len(v)) : v \in {w \in doc.a \cup doc.d :
        /\ Len(w) >= 2
        /\ w[1] = "/"
        /\ \A i \in 2..Len(w) : w[i] \in WordTok \cup {"/"}}}

SpaRoutes(doc, base_url) ==
    {p \in {ReplaceDoubleSlash(base_url \o <<"/">> \o m) :
                m \in {x \in RouteMatches(doc) : ~StartsWithHttp(x)}} :
        StartsWith(p, base_url)}

\* contentOk = FALSE: page.content() raised and the except clause swallowed it
extract_spa_links(doc, base_url, contentOk) ==
    SpaHarvest(doc, base_url) \cup (IF contentOk THEN SpaRoutes(doc, base_url) ELSE {})

\* ------------------------------------------------------------------- state
VARIABLES
    variant,      \* "static" (static.py crawl) or "spa" (dynamic.py crawl_spa)
    start_url,    \* sys.argv[1]
    max_depth,    \* sys.argv[2]
    site,         \* the documents the browser is served
    base_url,     \* main: scheme://netloc of start_url
    visited,      \* module-level set `visited`
    sitemap,      \* module-level list `sitemap`
    stack,        \* the chain of crawl calls in progress, innermost last
    open_pages,   \* page contexts created by new_page and not closed
    result,       \* "init", "running", "returned" or "raised" (top-level call)
    failures,     \* number of browser operations that raised so far
    visit_log,    \* URLs for which a page visit was started, in order
    nav_failed,   \* URLs whose navigation failed
    calls,        \* <<parent URL, child URL>> of every recursive crawl call
    close_raised, \* number of page.close() calls that raised
    scroll_failed, \* URLs whose scroll / interaction script raised
    wait_pc,             \* position inside wait_for_dynamic_content
    elapsed,             \* time.time() - start_time, in seconds
    previous_link_count,
    stable_count,
    current_link_count,  \* the latest sample, -1 before the first one
    same_run             \* how many latest samples in a row are equal

vars == <<variant, start_url, max_depth, site, base_url, visited, sitemap, stack,
          open_pages, result, failures, visit_log, nav_failed, calls,
          close_raised, scroll_failed,
          wait_pc, elapsed, previous_link_count, stable_count,
          current_link_count, same_run>>

config == <<variant, start_url, max_depth, site, base_url>>
history == <<visit_log, nav_failed, calls>>
marks == <<close_raised, scroll_failed>>
waiting == <<wait_pc, elapsed, previous_link_count, stable_count,
             current_link_count, same_run>>

\* unique_links[:10]
ChildCap == 10

\* page.url of a page that has not navigated yet
AboutBlank == <<"about", ":", "blank">>

Frame(url, depth) ==
    [url |-> url, depth |-> depth, pc |-> "entry", todo |-> {}, count |-> 0,
     page |-> FALSE]

Top == stack[Len(stack)]
SetTop(f) == [stack EXCEPT ![Len(stack)] = f]
AtPc(pc) == Len(stack) > 0 /\ Top.pc = pc
MayFail == failures < MaxFailures

SuccessRecord(url, depth) == [url |-> url, depth |-> depth, error |-> FALSE]
ErrorRecord(url, depth) == [url |-> url, depth |-> depth, error |-> TRUE]

\* variant of IsNoOp without the test on the base URL
IsNoOpAnyHost(url, depth) ==
    \/ url \in visited
    \/ depth > max_depth

\* variant of IsNoOp whose depth test is off by one
IsNoOpDeeper(url, depth) ==
    \/ url \in visited
    \/ ~StartsWith(url, base_url)
    \/ depth > max_depth + 1

\* the guard at the head of crawl / crawl_spa
IsNoOp(url, depth) ==
    \/ url \in visited
    \/ ~StartsWith(url, base_url)
    \/ depth > max_depth

\* the test on each link of the child loop
ShouldRecurse(link) == link \notin visited /\ Contains(link, base_url)

\* variant of VisitedAdd that assigns instead of adding
VisitedAddReplaces(url) == {url}

\* variant of VisitedAdd that forgets the insertion
VisitedAddDropped(url) == visited

\* visited.add(current_url)
VisitedAdd(url) == visited \cup {url}

\* variant of RaiseInTry without the except clause: the exception leaves crawl
RaiseInTryEscapes ==
    IF Len(stack) = 1 THEN <<>>
    ELSE [SubSeq(stack, 1, Len(stack) - 1) EXCEPT ![Len(stack) - 1].pc = "except"]

\* an operation inside the try block raises: control is in the except clause
RaiseInTry == SetTop([Top EXCEPT !.pc = "except"])

\* variant of NavFailure that ignores the failed navigation and goes on
NavFailureIgnored == SetTop([Top EXCEPT !.pc = "scroll"])

\* navigation failed (static.py: page.goto raised inside the try block;
\* dynamic.py: `if not success: raise Exception(...)` inside the try block)
NavFailure == RaiseInTry

\* variant of ChildDepth that passes the caller's depth on unchanged
ChildDepthSame(d) == d

\* the depth argument of the recursive call: depth + 1
ChildDepth(d) == d + 1

\* the slice index of unique_links[:10]; static.py has no such counter
NextCount(c) == IF variant = "spa" THEN c + 1 ELSE c

\* the crawl call of the innermost frame returns normally
ReturnStack == SubSeq(stack, 1, Len(stack) - 1)

\* an exception leaves the innermost frame: the caller awaits the call inside
\* its try block, so control is in its except clause next
RaiseStack ==
    IF Len(stack) = 1 THEN <<>>
    ELSE [SubSeq(stack, 1, Len(stack) - 1) EXCEPT ![Len(stack) - 1].pc = "except"]

Init ==
    /\ variant \in {"static", "spa"}
    /\ start_url \in StartUrls
    /\ max_depth \in 0..MaxMaxDepth
    /\ site \in Sites
    /\ site[Origin] = WidePage => max_depth = 0
    /\ base_url = <<>>
    /\ visited = {}
    /\ sitemap = <<>>
    /\ stack = <<>>
    /\ open_pages = 0
    /\ result = "init"
    /\ failures = 0
    /\ visit_log = <<>>
    /\ nav_failed = {}
    /\ calls = {}
    /\ close_raised = 0
    /\ scroll_failed = {}
    /\ wait_pc = "idle"
    /\ elapsed = 0
    /\ previous_link_count = 0
    /\ stable_count = 0
    /\ current_link_count = -1
    /\ same_run = 0

\* main: derive base_url and make the top-level crawl call at depth 0
Main ==
    /\ result = "init"
    /\ base_url' = BaseUrlOf(start_url)
    /\ stack' = <<Frame(start_url, 0)>>
    /\ result' = "running"
    /\ UNCHANGED <<variant, start_url, max_depth, site, visited, sitemap,
                   open_pages, failures, history, marks, waiting>>

\* crawl: the guard holds, return at once
CrawlNoOp ==
    /\ AtPc("entry")
    /\ IsNoOp(Top.url, Top.depth)
    /\ stack' = ReturnStack
    /\ result' = IF Len(stack) = 1 THEN "returned" ELSE result
    /\ UNCHANGED <<config, visited, sitemap, open_pages, failures, history, marks, waiting>>

\* crawl: visited.add(current_url)
CrawlProceed ==
    /\ AtPc("entry")
    /\ ~IsNoOp(Top.url, Top.depth)
    /\ visited' = VisitedAdd(Top.url)
    /\ stack' = SetTop([Top EXCEPT !.pc = "new_page"])
    /\ UNCHANGED <<config, sitemap, open_pages, result, failures, history, marks, waiting>>

\* page = await context.new_page()
NewPageOk ==
    /\ AtPc("new_page")
    /\ open_pages' = open_pages + 1
    /\ visit_log' = Append(visit_log, Top.url)
    /\ stack' = SetTop([Top EXCEPT !.pc = "navigate", !.page = TRUE])
    /\ UNCHANGED <<config, visited, sitemap, result, failures, nav_failed, calls, marks, waiting>>

\* new_page raises: it is outside the try block, the exception leaves crawl
NewPageRaise ==
    /\ AtPc("new_page")
    /\ MayFail
    /\ failures' = failures + 1
    /\ visit_log' = Append(visit_log, Top.url)
    /\ stack' = RaiseStack
    /\ result' = IF Len(stack) = 1 THEN "raised" ELSE result
    /\ UNCHANGED <<config, visited, sitemap, open_pages, nav_failed, calls, marks, waiting>>

\* navigate_spa_route: page.url already equals the target, nothing to do
NavShortcut(url) == RStripSlash(AboutBlank) = RStripSlash(url)

\* page.goto succeeds (spa: followed by wait_for_spa_content, which swallows
\* every failure of its own)
GotoOk ==
    /\ AtPc("navigate")
    /\ stack' = SetTop([Top EXCEPT !.pc = IF variant = "static" THEN "wait"
                                          ELSE IF NavShortcut(Top.url) THEN "scroll"
                                          ELSE "spa_wait"])
    /\ UNCHANGED <<config, visited, sitemap, open_pages, result, failures, history, marks, waiting>>

\* page.goto raises: static.py goes to the except clause, dynamic.py tries
\* the click fallback
GotoRaise ==
    /\ AtPc("navigate")
    /\ MayFail
    /\ ~(variant = "spa" /\ NavShortcut(Top.url))
    /\ failures' = failures + 1
    /\ stack' = IF variant = "static" THEN NavFailure
                 ELSE SetTop([Top EXCEPT !.pc = "nav_fallback"])
    /\ nav_failed' = IF variant = "static" THEN nav_failed \cup {Top.url} ELSE nav_failed
    /\ UNCHANGED <<config, visited, sitemap, open_pages, result, visit_log, calls, marks, waiting>>

\* navigate_spa_route: a matching link was found and clicked
ClickFallbackOk ==
    /\ AtPc("nav_fallback")
    /\ stack' = SetTop([Top EXCEPT !.pc = "spa_wait"])
    /\ UNCHANGED <<config, visited, sitemap, open_pages, result, failures, history, marks, waiting>>

\* navigate_spa_route returns False (no matching link, or the script raised);
\* crawl_spa raises "Failed to navigate to SPA route" inside its try block
ClickFallbackFail ==
    /\ AtPc("nav_fallback")
    /\ nav_failed' = nav_failed \cup {Top.url}
    /\ stack' = NavFailure
    /\ UNCHANGED <<config, visited, sitemap, open_pages, result, failures, visit_log, calls, marks, waiting>>

\* static.py: wait_for_dynamic_content returns: its loop ends when the anchor
\* count is stable or when max_wait seconds have passed, and every pass
\* sleeps one second
WaitOk ==
    /\ AtPc("wait")
    /\ stack' = SetTop([Top EXCEPT !.pc = "scroll"])
    /\ UNCHANGED <<config, visited, sitemap, open_pages, result, failures, history, marks, waiting>>

\* static.py: the page.evaluate of wait_for_dynamic_content raises; it is not
\* inside a try of its own
WaitRaise ==
    /\ AtPc("wait")
    /\ MayFail
    /\ failures' = failures + 1
    /\ stack' = RaiseInTry
    /\ UNCHANGED <<config, visited, sitemap, open_pages, result, history, marks, waiting>>

\* dynamic.py: wait_for_spa_content returns after one of its strategies and
\* the network-idle wait went through
SpaWaitOk ==
    /\ AtPc("spa_wait")
    /\ stack' = SetTop([Top EXCEPT !.pc = "scroll"])
    /\ UNCHANGED <<config, visited, sitemap, open_pages, result, failures, history, marks, waiting>>

\* dynamic.py: every strategy of wait_for_spa_content raised or timed out, or
\* the network-idle wait timed out; each is inside a try of its own whose
\* except clause goes on, so the wait returns all the same
SpaWaitSwallow ==
    /\ AtPc("spa_wait")
    /\ MayFail
    /\ failures' = failures + 1
    /\ stack' = SetTop([Top EXCEPT !.pc = "scroll"])
    /\ UNCHANGED <<config, visited, sitemap, open_pages, result, history, marks, waiting>>

\* smart_scroll / trigger_spa_navigation returns
ScrollOk ==
    /\ AtPc("scroll")
    /\ stack' = SetTop([Top EXCEPT !.pc = "info"])
    /\ UNCHANGED <<config, visited, sitemap, open_pages, result, failures, history, marks, waiting>>

\* the scroll script raises: smart_scroll lets it through,
\* trigger_spa_navigation catches it
ScrollRaise ==
    /\ AtPc("scroll")
    /\ MayFail
    /\ failures' = failures + 1
    /\ stack' = IF variant = "static" THEN RaiseInTry
                 ELSE SetTop([Top EXCEPT !.pc = "info"])
    /\ scroll_failed' = scroll_failed \cup {Top.url}
    /\ UNCHANGED <<config, visited, sitemap, open_pages, result, history, close_raised, waiting>>

\* page_info = page.evaluate(...); sitemap.append(success record)
PageInfoOk ==
    /\ AtPc("info")
    /\ sitemap' = Append(sitemap, SuccessRecord(Top.url, Top.depth))
    /\ stack' = SetTop([Top EXCEPT !.pc = "links"])
    /\ UNCHANGED <<config, visited, open_pages, result, failures, history, marks, waiting>>

\* the page_info script raises
PageInfoRaise ==
    /\ AtPc("info")
    /\ MayFail
    /\ failures' = failures + 1
    /\ stack' = RaiseInTry
    /\ UNCHANGED <<config, visited, sitemap, open_pages, result, history, marks, waiting>>

\* the links the loop will iterate: static.py takes all of them,
\* dynamic.py those not yet visited
LinksToCrawl(url, contentOk) ==
    IF variant = "static"
    THEN extract_links_comprehensive(DocumentAt(site, url), Location(url), base_url)
    ELSE extract_spa_links(DocumentAt(site, url), base_url, contentOk) \ visited

\* links = extract_links_comprehensive(...) / extract_spa_links(...)
ExtractLinksOk ==
    /\ AtPc("links")
    /\ stack' = SetTop([Top EXCEPT !.pc = "loop", !.todo = LinksToCrawl(Top.url, TRUE),
                                   !.count = 0])
    /\ UNCHANGED <<config, visited, sitemap, open_pages, result, failures, history, marks, waiting>>

\* dynamic.py: page.content() raises inside extract_spa_links and is swallowed
ExtractLinksNoContent ==
    /\ AtPc("links")
    /\ variant = "spa"
    /\ MayFail
    /\ failures' = failures + 1
    /\ stack' = SetTop([Top EXCEPT !.pc = "loop", !.todo = LinksToCrawl(Top.url, FALSE),
                                   !.count = 0])
    /\ UNCHANGED <<config, visited, sitemap, open_pages, result, history, marks, waiting>>

\* the extraction script raises, after the success record was appended
ExtractLinksRaise ==
    /\ AtPc("links")
    /\ MayFail
    /\ failures' = failures + 1
    /\ stack' = RaiseInTry
    /\ UNCHANGED <<config, visited, sitemap, open_pages, result, history, marks, waiting>>

\* variant of LoopDone without the slice
LoopDoneNoCap(f) == f.todo = {}

\* no link is left, or dynamic.py has taken unique_links[:10]
LoopDone(f) == f.todo = {} \/ (variant = "spa" /\ f.count >= ChildCap)

\* variant of RestLinks that never advances the iteration
RestLinksKept(todo, link) == todo

\* the set left to iterate once `link` was taken
RestLinks(todo, link) == todo \ {link}

\* variant of PushCall that defers the callee: the caller goes on and the
\* callee runs once the caller has left
PushCallDeferred(st, callee) == <<callee>> \o st

\* await crawl(...): the caller is suspended under its callee until the callee
\* has left
PushCall(st, callee) == Append(st, callee)

\* for link in links: the test holds, await crawl(..., link, depth + 1, ...).
\* The iteration order of a Python set is arbitrary: any remaining link is next.
LoopCall ==
    /\ AtPc("loop")
    /\ ~LoopDone(Top)
    /\ \E link \in Top.todo :
        /\ ShouldRecurse(link)
        /\ stack' = PushCall(SetTop([Top EXCEPT !.todo = RestLinks(Top.todo, link),
                                                !.count = NextCount(Top.count)]),
                             Frame(link, ChildDepth(Top.depth)))
        /\ calls' = calls \cup {<<Top.url, link>>}
    /\ UNCHANGED <<config, visited, sitemap, open_pages, result, failures,
                   visit_log, nav_failed, marks, waiting>>

\* for link in links: the test fails, next link
LoopSkip ==
    /\ AtPc("loop")
    /\ ~LoopDone(Top)
    /\ \E link \in Top.todo :
        /\ ~ShouldRecurse(link)
        /\ stack' = SetTop([Top EXCEPT !.todo = RestLinks(Top.todo, link),
                                       !.count = NextCount(Top.count)])
    /\ UNCHANGED <<config, visited, sitemap, open_pages, result, failures, history, marks, waiting>>

\* the loop is over, control falls into the finally clause
LoopEnd ==
    /\ AtPc("loop")
    /\ LoopDone(Top)
    /\ stack' = SetTop([Top EXCEPT !.pc = "finally", !.todo = {}])
    /\ UNCHANGED <<config, visited, sitemap, open_pages, result, failures, history, marks, waiting>>

\* variant of Except that returns from the except clause and never reaches
\* the finally clause
ExceptSkipsFinally ==
    /\ AtPc("except")
    /\ sitemap' = Append(sitemap, ErrorRecord(Top.url, Top.depth))
    /\ stack' = ReturnStack
    /\ result' = IF Len(stack) = 1 THEN "returned" ELSE result
    /\ UNCHANGED <<config, visited, open_pages, failures, history, marks, waiting>>

\* except Exception as e: sitemap.append(error record)
Except ==
    /\ AtPc("except")
    /\ sitemap' = Append(sitemap, ErrorRecord(Top.url, Top.depth))
    /\ stack' = SetTop([Top EXCEPT !.pc = "finally", !.todo = {}])
    /\ UNCHANGED <<config, visited, open_pages, result, failures, history, marks, waiting>>

\* finally: await page.close()
CloseOk ==
    /\ AtPc("finally")
    /\ open_pages' = open_pages - 1
    /\ stack' = ReturnStack
    /\ result' = IF Len(stack) = 1 THEN "returned" ELSE result
    /\ UNCHANGED <<config, visited, sitemap, failures, history, marks, waiting>>

\* page.close() raises; whether the page context was released is not known
CloseRaise ==
    /\ AtPc("finally")
    /\ MayFail
    /\ failures' = failures + 1
    /\ open_pages' \in {open_pages, open_pages - 1}
    /\ stack' = RaiseStack
    /\ result' = IF Len(stack) = 1 THEN "raised" ELSE result
    /\ close_raised' = close_raised + 1
    /\ UNCHANGED <<config, visited, sitemap, history, scroll_failed, waiting>>

Next ==
    \/ Main
    \/ CrawlNoOp
    \/ CrawlProceed
    \/ NewPageOk
    \/ NewPageRaise
    \/ GotoOk
    \/ GotoRaise
    \/ ClickFallbackOk
    \/ ClickFallbackFail
    \/ WaitOk
    \/ WaitRaise
    \/ SpaWaitOk
    \/ SpaWaitSwallow
    \/ ScrollOk
    \/ ScrollRaise
    \/ PageInfoOk
    \/ PageInfoRaise
    \/ ExtractLinksOk
    \/ ExtractLinksNoContent
    \/ ExtractLinksRaise
    \/ LoopCall
    \/ LoopSkip
    \/ LoopEnd
    \/ Except
    \/ CloseOk
    \/ CloseRaise

Spec == Init /\ [][Next]_vars

\* the runs of the termination check: the sites whose root page links only
\* into the site itself, so that every root link closes a cycle
LiveInit ==
    /\ Init
    /\ site[Origin].a \subseteq {HRoot, HAbout, HX}
    /\ site[Origin].d = {}

\* every browser operation returns or raises, so a step that can be taken is
\* eventually taken
FairSpec == LiveInit /\ [][Next]_vars /\ WF_vars(Next)

Done == result \in {"returned", "raised"}

\* ------------------------------------- static.py, wait_for_dynamic_content
max_wait == 30          \* seconds
NetIdleTimeout == 5     \* wait_for_load_state(timeout=5000), in seconds
SleepSeconds == 1       \* asyncio.sleep(1)
StableNeeded == 3       \* if stable_count >= 3: break

crawl_state == <<config, visited, sitemap, stack, open_pages, result, failures,
                 history, marks>>

\* the call of wait_for_dynamic_content on a page: start_time is taken,
\* previous_link_count = 0, stable_count = 0
WaitInit ==
    /\ variant = "static"
    /\ start_url = UrlRoot
    /\ max_depth = 0
    /\ site = CHOOSE x \in Sites : x[Origin] = ExamplePage
    /\ base_url = <<>>
    /\ visited = {}
    /\ sitemap = <<>>
    /\ stack = <<>>
    /\ open_pages = 0
    /\ result = "init"
    /\ failures = 0
    /\ visit_log = <<>>
    /\ nav_failed = {}
    /\ calls = {}
    /\ close_raised = 0
    /\ scroll_failed = {}
    /\ wait_pc = "head"
    /\ elapsed = 0
    /\ previous_link_count = 0
    /\ stable_count = 0
    /\ current_link_count = -1
    /\ same_run = 0

\* while time.time() - start_time < max_wait: one more pass
WaitLoopEnter ==
    /\ wait_pc = "head"
    /\ elapsed < max_wait
    /\ wait_pc' = "netidle"
    /\ UNCHANGED <<crawl_state, elapsed, previous_link_count, stable_count,
                   current_link_count, same_run>>

\* the loop condition fails: the function returns
WaitLoopTimeout ==
    /\ wait_pc = "head"
    /\ elapsed >= max_wait
    /\ wait_pc' = "returned"
    /\ UNCHANGED <<crawl_state, elapsed, previous_link_count, stable_count,
                   current_link_count, same_run>>

\* wait_for_load_state('networkidle') returns before its timeout
WaitNetIdleOk ==
    /\ wait_pc = "netidle"
    /\ \E d \in 0..(NetIdleTimeout - 1) : elapsed' = elapsed + d
    /\ wait_pc' = "sample"
    /\ UNCHANGED <<crawl_state, previous_link_count, stable_count,
                   current_link_count, same_run>>

\* wait_for_load_state times out: except: pass
WaitNetIdleTimeout ==
    /\ wait_pc = "netidle"
    /\ elapsed' = elapsed + NetIdleTimeout
    /\ wait_pc' = "sample"
    /\ UNCHANGED <<crawl_state, previous_link_count, stable_count,
                   current_link_count, same_run>>

\* the run of equal samples once the sample c is taken
RunAfter(c) == IF c = current_link_count THEN same_run + 1 ELSE 1

\* current_link_count = page.evaluate(...) and the test on it: the count
\* equals previous_link_count, stable_count goes up and at 3 the loop breaks;
\* or it differs, stable_count = 0 and previous_link_count takes the count
WaitSample ==
    /\ wait_pc = "sample"
    /\ \E c \in 0..MaxCount :
        /\ current_link_count' = c
        /\ same_run' = RunAfter(c)
        /\ IF c = previous_link_count
           THEN /\ stable_count' = stable_count + 1
                /\ previous_link_count' = previous_link_count
                /\ wait_pc' = IF stable_count + 1 >= StableNeeded
                               THEN "returned" ELSE "sleep"
           ELSE /\ stable_count' = 0
                /\ previous_link_count' = c
                /\ wait_pc' = "sleep"
    /\ UNCHANGED <<crawl_state, elapsed>>

\* page.evaluate raises: no try encloses it, the exception leaves the function
WaitSampleRaise ==
    /\ wait_pc = "sample"
    /\ wait_pc' = "raised"
    /\ UNCHANGED <<crawl_state, elapsed, previous_link_count, stable_count,
                   current_link_count, same_run>>

\* await asyncio.sleep(1)
WaitSleep ==
    /\ wait_pc = "sleep"
    /\ elapsed' = elapsed + SleepSeconds
    /\ wait_pc' = "head"
    /\ UNCHANGED <<crawl_state, previous_link_count, stable_count,
                   current_link_count, same_run>>

WaitNext ==
    \/ WaitLoopEnter
    \/ WaitLoopTimeout
    \/ WaitNetIdleOk
    \/ WaitNetIdleTimeout
    \/ WaitSample
    \/ WaitSampleRaise
    \/ WaitSleep

WaitSpec == WaitInit /\ [][WaitNext]_vars

\* ------------------------------------------------- vocabulary of the claims
Records(u) == {i \in 1..Len(sitemap) : sitemap[i].url = u}
SuccessRecords(u) == {i \in Records(u) : ~sitemap[i].error}
ErrorRecords(u) == {i \in Records(u) : sitemap[i].error}

\* the crawl call that visits u is still in progress
InProgress(u) == \E i \in 1..Len(stack) : stack[i].url = u /\ stack[i].pc # "entry"

\* the candidate links of the page at u, as the extractor of the variant
\* returns them
PageLinks(u) ==
    IF variant = "static"
    THEN extract_links_comprehensive(DocumentAt(site, u), Location(u), base_url)
    ELSE extract_spa_links(DocumentAt(site, u), base_url, TRUE)

\* ----------------------------------------------------------------- claims
\* C1: within one run a page visit of a URL string is started at most once,
\* however many pages link to it, with or without cycles, and whether its
\* first visit succeeded or failed.
C1_VisitAtMostOnce ==
    \A i, j \in 1..Len(visit_log) : visit_log[i] = visit_log[j] => i = j

\* a URL whose navigation failed is linked from two pages that were both
\* crawled to the end, and the run is over
C1_Witness ==
    /\ result = "returned"
    /\ \E u \in nav_failed : \E p, q \in visited :
        /\ p # q
        /\ u \in PageLinks(p) /\ u \in PageLinks(q)
        /\ SuccessRecords(p) # {} /\ SuccessRecords(q) # {}
        /\ \E i \in 1..Len(visit_log) : visit_log[i] = u

\* C2: every URL inserted into visited gets exactly one record over the run,
\* a success record or an error record, never both and never none, whichever
\* step of the visit fails.
C2_ExactlyOneRecord ==
    \A u \in visited :
        /\ Cardinality(Records(u)) <= 1
        /\ (~InProgress(u) => Cardinality(Records(u)) = 1)

\* C3: every record has 0 <= depth <= max_depth and the record of the start
\* URL has depth 0.
C3_DepthBound ==
    \A i \in 1..Len(sitemap) :
        /\ 0 <= sitemap[i].depth
        /\ sitemap[i].depth <= max_depth
        /\ (sitemap[i].url = start_url => sitemap[i].depth = 0)

\* a page at the depth bound was recorded, a deeper call was refused, and a
\* crawled page links back to the start URL
C3_Witness ==
    /\ Done
    /\ max_depth = 2
    /\ \E i \in 1..Len(sitemap) : sitemap[i].depth = max_depth
    /\ \E c \in calls : c[2] \notin visited /\ StartsWith(c[2], base_url)
    /\ \E p \in visited : p # start_url /\ SuccessRecords(p) # {} /\ start_url \in PageLinks(p)
    /\ Records(start_url) # {}

\* C4: every recorded URL has exactly the scheme and host of the start URL,
\* also when a page links to a host whose scheme+host string only begins
\* with the base origin string.
C4_SameOrigin ==
    \A i \in 1..Len(sitemap) : BaseUrlOf(sitemap[i].url) = BaseUrlOf(start_url)

\* C5: for any finite link graph, cyclic or not, and any max_depth >= 0 the
\* top-level crawl call eventually completes, given that every browser
\* operation returns or raises.
C5_Terminates == <>Done

\* the run returned after crawling two pages that link to each other
C5_Witness ==
    /\ result = "returned"
    /\ Cardinality(visited) >= 3
    /\ \E p, q \in visited :
        /\ p # q
        /\ p \in PageLinks(q) /\ q \in PageLinks(p)
        /\ SuccessRecords(p) # {} /\ SuccessRecords(q) # {}

\* every operation that raised in this run was a navigation that failed
OnlyNavFailures == nav_failed # {} /\ failures = Cardinality(nav_failed)

DepthOf(u) == sitemap[CHOOSE i \in Records(u) : TRUE].depth

\* C6: when A is visited and links to B and to other in-scope children, and
\* the navigation to B fails, the run ends with a success record for A, an
\* error record for B, and every other child of A within the depth bound and
\* the child cap crawled.
C6_ErrorIsolation ==
    (Done /\ OnlyNavFailures) =>
        /\ result = "returned"
        /\ \A c \in calls :
            c[2] \in nav_failed =>
                /\ Cardinality(SuccessRecords(c[1])) = 1
                /\ ErrorRecords(c[1]) = {}
                /\ Cardinality(ErrorRecords(c[2])) = 1
                /\ SuccessRecords(c[2]) = {}
                /\ \A o \in PageLinks(c[1]) \ {c[2]} :
                    ( /\ StartsWith(o, base_url)
                      /\ DepthOf(c[1]) + 1 <= max_depth
                      /\ Cardinality(PageLinks(c[1])) <= ChildCap )
                    => (o \in visited /\ Records(o) # {})

\* B failed to navigate and a sibling of B was called and recorded after B's
\* error record
C6_Witness ==
    /\ Done
    /\ OnlyNavFailures
    /\ \E c \in calls :
        /\ c[2] \in nav_failed
        /\ \E o \in PageLinks(c[1]) \ {c[2]} :
            /\ <<c[1], o>> \in calls
            /\ \E i \in ErrorRecords(c[2]) : \E j \in SuccessRecords(o) : i < j

\* C7: two URL strings for the same scheme+host+path (trailing slash,
\* fragment, relative or absolute form), from two links or from the start
\* URL and a link, are one node: the page is visited once.
C7_OneNodePerPage ==
    \A u, v \in visited : PageKey(u) = PageKey(v) => u = v

\* the example run: start at https://example.com/ with max_depth = 1, the
\* root page links to /about, /about#team and https://other.com/x
ExampleRun ==
    /\ start_url = UrlRoot
    /\ max_depth = 1
    /\ site[Origin] = ExamplePage

NoVisitFailed == result = "returned" /\ \A i \in 1..Len(sitemap) : ~sitemap[i].error

\* C8: the example run without a failed visit ends with exactly two records,
\* the root at depth 0 and https://example.com/about at depth 1.
C8_ExampleTwoRecords ==
    (ExampleRun /\ NoVisitFailed) =>
        sitemap = <<SuccessRecord(UrlRoot, 0), SuccessRecord(UrlAbout, 1)>>

C8_Witness ==
    /\ ExampleRun
    /\ NoVisitFailed
    /\ Len(sitemap) = 2
    /\ <<UrlRoot, UrlAbout>> \in calls

\* the except clause of the visit of u has not run yet
BeforeExcept(u) == \E i \in 1..Len(stack) : stack[i].url = u /\ stack[i].pc = "except"

\* C9: a page whose navigation fails gets exactly one record, an error
\* record, and makes no recursive crawl call, so nothing is recorded through
\* it.
C9_NavFailureOneErrorRecord ==
    /\ \A u \in nav_failed :
        /\ SuccessRecords(u) = {}
        /\ Cardinality(ErrorRecords(u)) <= 1
        /\ (~BeforeExcept(u) => Cardinality(ErrorRecords(u)) = 1)
        /\ \A c \in calls : c[1] # u
    /\ \A i \in 1..Len(sitemap) :
        sitemap[i].url # start_url =>
            \E c \in calls : c[2] = sitemap[i].url /\ c[1] \notin nav_failed

\* the run is over, the failed page has its error record, and a link of that
\* page that is in scope and within the depth bound was never crawled
C9_Witness ==
    /\ Done
    /\ \E u \in nav_failed :
        /\ Cardinality(ErrorRecords(u)) = 1
        /\ \E l \in PageLinks(u) :
            /\ StartsWith(l, base_url)
            /\ l \notin visited
            /\ DepthOf(u) + 1 <= max_depth

Holding == {i \in 1..Len(stack) : stack[i].page}

C11_PagesClosed ==
    close_raised = 0 =>
        /\ open_pages = Cardinality(Holding)
        /\ \A i \in 1..Len(stack) :
            stack[i].page <=> stack[i].pc \notin {"entry", "new_page"}
        /\ (Done => open_pages = 0)

\* the run returned with no page open after a child failed to open its page:
\* the parent had its success record, got an error record, and closed
C11_Witness ==
    /\ result = "returned"
    /\ close_raised = 0
    /\ open_pages = 0
    /\ \E c \in calls :
        /\ SuccessRecords(c[1]) # {}
        /\ ErrorRecords(c[1]) # {}
        /\ c[2] \in visited
        /\ Records(c[2]) = {}

\* the URLs that have a record in the sitemap
Recorded == {sitemap[i].url : i \in 1..Len(sitemap)}

\* C12: a failure raised at any step of a page visit never leaves the
\* top-level crawl call, and when the run is over the URLs with a record are
\* exactly the URLs in visited.
C12_NoEscapeAllRecorded ==
    /\ result # "raised"
    /\ (Done => Recorded = visited)

\* the place of u in the order of insertion into visited: every insertion
\* is followed by the new_page call of that URL before the next insertion
Pos(u) == CHOOSE i \in 1..Len(visit_log) : visit_log[i] = u

InDiscoveryOrder ==
    \A i, j \in 1..Len(sitemap) :
        (i < j /\ sitemap[i].url # sitemap[j].url) =>
            Pos(sitemap[i].url) < Pos(sitemap[j].url)

\* C13: the sitemap is append-only and its order is discovery order: of any
\* two records, the one of the URL inserted into visited first comes first.
C13_DiscoveryOrder ==
    [][ /\ Len(sitemap') >= Len(sitemap)
        /\ SubSeq(sitemap', 1, Len(sitemap)) = sitemap
        /\ InDiscoveryOrder' ]_vars

\* C14: a URL is in visited before its page visit starts and before any
\* recursive crawl call for a link of its page begins, and visited never
\* loses an element.
C14_VisitedBeforeVisit ==
    [][ /\ visited \subseteq visited'
        /\ (visit_log' # visit_log => visit_log'[Len(visit_log')] \in visited)
        /\ \A c \in calls' \ calls : c[1] \in visited
        /\ \A i \in 1..Len(stack') :
            stack'[i].pc # "entry" => stack'[i].url \in visited' ]_vars

\* a page deeper in the recursion links back to a page whose visit is still
\* in progress, and that link was passed over
C14_Witness ==
    /\ Len(stack) >= 2
    /\ AtPc("finally")
    /\ Cardinality(visited) >= 2
    /\ \E l \in PageLinks(Top.url) :
        /\ l # Top.url
        /\ InProgress(l)
        /\ <<Top.url, l>> \notin calls

\* C15: a crawl call whose URL is already in visited, or does not begin with
\* the base origin, or whose depth exceeds max_depth, is a no-op: it raises
\* nothing, opens no page, and leaves visited and the sitemap unchanged.
C15_GuardedCallNoOp ==
    [][ ( /\ AtPc("entry")
          /\ \/ Top.url \in visited
             \/ ~StartsWith(Top.url, base_url)
             \/ Top.depth > max_depth )
        => /\ visited' = visited
           /\ sitemap' = sitemap
           /\ open_pages' = open_pages
           /\ visit_log' = visit_log
           /\ failures' = failures
           /\ result' # "raised"
           /\ stack' = ReturnStack ]_vars

\* the run returned after a call for a URL of another host and a call beyond
\* the depth bound were both made and left no trace
C15_Witness ==
    /\ result = "returned"
    /\ \E c \in calls : ~StartsWith(c[2], base_url) /\ c[2] \notin visited
    /\ \E c \in calls : StartsWith(c[2], base_url) /\ c[2] \notin visited
    /\ Recorded = visited

\* C16: the readiness wait never fails its caller: whatever the browser does
\* during the wait, the wait returns and the visit goes on to the next step
\* instead of the except clause.
C16_WaitNeverFails ==
    [][ (AtPc("wait") \/ AtPc("spa_wait"))
        => /\ Len(stack') = Len(stack)
           /\ stack'[Len(stack')].pc = "scroll" ]_vars

\* C17: a visit ends in an error record for navigation failure only after
\* the direct navigation and then the click fallback were both attempted and
\* both failed; the fallback is attempted only after the direct navigation
\* failed.
C17_FallbackBeforeNavError ==
    [][ /\ (nav_failed' # nav_failed => AtPc("nav_fallback"))
        /\ ( ( /\ Len(stack') > 0
               /\ stack'[Len(stack')].pc = "nav_fallback"
               /\ ~AtPc("nav_fallback") )
             => (AtPc("navigate") /\ failures' = failures + 1) ) ]_vars

\* the recursive crawl calls made by the visit of u
CallsFrom(u) == {c \in calls : c[1] = u}

\* C18 as stated: each page visit makes at most 10 recursive crawl calls,
\* however many candidate links the page yields.
C18_AtMostTenCalls ==
    \A u \in visited : Cardinality(CallsFrom(u)) <= ChildCap

\* C18 as amended: in dynamic.py each page visit makes at most 10 recursive
\* crawl calls and passes over at most 10 links, however many candidate
\* links the page yields.
C18_SpaAtMostTenCalls ==
    variant = "spa" =>
        /\ \A u \in visited : Cardinality(CallsFrom(u)) <= ChildCap
        /\ \A i \in 1..Len(stack) : stack[i].count <= ChildCap

\* dynamic.py crawled a page with more than ten links and made ten calls
C18_Witness ==
    /\ variant = "spa"
    /\ Done
    /\ \E u \in visited :
        /\ Cardinality(PageLinks(u)) > ChildCap
        /\ Cardinality(CallsFrom(u)) = ChildCap

\* C19: traversal is depth-first and sequential: the crawl calls in progress
\* form one chain in which every call but the innermost awaits the call it
\* made, one level deeper; so when the visit of a child starts, the visits
\* below every child taken before it are over, and no two visits are in
\* their navigate / extract phase at once.
C19_DepthFirst ==
    \A i \in 1..(Len(stack) - 1) :
        /\ stack[i].pc = "loop"
        /\ <<stack[i].url, stack[i + 1].url>> \in calls
        /\ stack[i + 1].depth = stack[i].depth + 1

\* the visit of a second child starts when the first child and a page
\* crawled from it have their records and their calls are over
C19_Witness ==
    /\ Len(stack) = 2
    /\ AtPc("navigate")
    /\ \E c1 \in visited :
        /\ <<stack[1].url, c1>> \in calls
        /\ c1 # Top.url
        /\ Records(c1) # {}
        /\ ~InProgress(c1)
        /\ \E d \in visited \ {Top.url, stack[1].url} :
            /\ <<c1, d>> \in calls
            /\ Records(d) # {}
            /\ ~InProgress(d)

\* every operation that raised in this run was a scroll / interaction script
OnlyScrollFailures == scroll_failed # {} /\ failures = Cardinality(scroll_failed)

\* C20: a failure of the scroll / hover interaction step of a visit is
\* swallowed: the visit gets no error record, it gets its success record and
\* its links are extracted.
C20_ScrollFailureSwallowed ==
    OnlyScrollFailures =>
        \A u \in scroll_failed :
            /\ ErrorRecords(u) = {}
            /\ Done =>
                /\ Cardinality(SuccessRecords(u)) = 1
                /\ \A l \in PageLinks(u) :
                    ( /\ StartsWith(l, base_url)
                      /\ DepthOf(u) + 1 <= max_depth
                      /\ Cardinality(PageLinks(u)) <= ChildCap )
                    => l \in visited

\* C21: wait_for_dynamic_content returns as soon as the anchor count has been
\* the same in three consecutive samples, whatever the sequence of sampled
\* counts (also when the count is constant and non-zero from the first
\* sample), and otherwise returns once max_wait has elapsed: it goes to sleep
\* for another pass only with fewer than three equal samples in a row, and it
\* has returned only after three equal samples or after max_wait.
C21_ReturnsOnThreeEqualSamples ==
    /\ wait_pc = "sleep" => same_run < StableNeeded
    /\ wait_pc = "returned" => (same_run >= StableNeeded \/ elapsed >= max_wait)

\* C22: every URL the link extractor returns begins with the base origin,
\* holds no fragment, is not the origin root itself and occurs once, for any
\* anchors and data-attribute links of the page (links to other hosts and
\* links with a fragment among them). The returned list is list(set(...)),
\* here a set; the formula speaks of the pages whose links were extracted.
C22_ExtractedLinksClean ==
    \A i \in 1..Len(stack) :
        stack[i].pc = "loop" =>
            \A l \in PageLinks(stack[i].url) :
                /\ StartsWith(l, base_url)
                /\ ~Includes(l, "#")
                /\ l \notin {base_url, base_url \o <<"/">>}

\* the links of the page at u that static.py's crawl accepts
InScopeLinks(u) ==
    {l \in extract_links_comprehensive(DocumentAt(site, u), Location(u), base_url) :
        StartsWith(l, base_url)}

\* the URLs reachable from the start URL through at most k links
RECURSIVE ReachWithin(_)
ReachWithin(k) ==
    IF k = 0 THEN {start_url}
    ELSE LET r == ReachWithin(k - 1)
         IN  r \cup UNION {InScopeLinks(u) : u \in r}

\* C23: in static.py, when no page visit fails, every in-scope URL reachable
\* from the start URL through at most max_depth links has a record when the
\* run is over, in whatever order the links of each page are iterated.
C23_StaticComplete ==
    (variant = "static" /\ result = "returned" /\ failures = 0) =>
        ReachWithin(max_depth) \subseteq Recorded

====
